---- MODULE Spec2Model ----
(***************************************************************************)
(* Model of the Game Boy Color CPU core of OhPyBoyColor (src/cpu/cpu.py): *)
(* the register file, the opcode dispatch table, every instruction method *)
(* and main_loop.  One action is one iteration of main_loop: the fetch of *)
(* the opcode at PC, the dispatch and the whole body of the method.       *)
(*                                                                         *)
(* Python raises IndexError when a sequence is indexed out of range and   *)
(* KeyError when a dict has no entry; neither is caught anywhere, so the  *)
(* exception leaves main_loop.  status records how the loop ended.        *)
(***************************************************************************)
EXTENDS Integers, Sequences, FiniteSets, TLC

VARIABLES AF, BC, DE, HL, SP, PC, ticks, game_data, status, parser

vars == <<AF, BC, DE, HL, SP, PC, ticks, game_data, status, parser>>
regs == <<AF, BC, DE, HL, SP>>

\* RegisterConstants.HIGH / LOW index a two-element Python list (0-based);
\* TLA+ sequences are 1-based, so the indices are shifted by one.
HIGH == 1
LOW == 2

\* Bounds of the model.
\* MaxLen: the longest program memory written out byte by byte.
\* MaxLoopTicks: the cycles a non-advancing run is followed for.
\* MaxPad: the most nop bytes put in front of an instruction under test.
\* MaxGame: the most bytes a ROM file holds past offset 0x150.
MaxLen == 3
MaxLoopTicks == 24
MaxPad == 2
MaxGame == 3

\* ------------------------------------------------------------------------
\* Program memory.  game_data is a byte sequence; it is kept as the record
\* [bytes, fill, nfill]: the bytes written out, followed by nfill copies of
\* the byte fill, so that a memory of 0x10000 bytes stays a small value.
\* ------------------------------------------------------------------------
DataLen == Len(game_data.bytes) + game_data.nfill

ByteAt(i) == IF i < Len(game_data.bytes) THEN game_data.bytes[i + 1] ELSE game_data.fill

\* Variant: no index is out of range; past the end a default byte is read.
InBoundsAlways(i) == TRUE


\* Python's sequence indexing: i in [-len, len) is valid, a negative index
\* counts from the end; anything else raises IndexError.
InBounds(i) == -DataLen <= i /\ i < DataLen

GetItem(i) == IF i < 0 THEN ByteAt(i + DataLen) ELSE ByteAt(i)

\* ------------------------------------------------------------------------
\* Integer helpers: Python ints are unbounded, so masks and shifts are
\* computed arithmetically.
\* ------------------------------------------------------------------------
RECURSIVE Pow2(_)
Pow2(n) == IF n = 0 THEN 1 ELSE 2 * Pow2(n - 1)

\* x << n and x >> n
Shl(x, n) == x * Pow2(n)
Shr(x, n) == x \div Pow2(n)

\* x & y and x | y for non-negative x, y
RECURSIVE BitAnd(_, _)
BitAnd(x, y) ==
    IF x = 0 \/ y = 0 THEN 0
    ELSE (x % 2) * (y % 2) + 2 * BitAnd(x \div 2, y \div 2)

RECURSIVE BitOr(_, _)
BitOr(x, y) ==
    IF x = 0 THEN y
    ELSE IF y = 0 THEN x
    ELSE (IF x % 2 = 1 \/ y % 2 = 1 THEN 1 ELSE 0) + 2 * BitOr(x \div 2, y \div 2)

\* x & 0xFF and x & 0xFFFF, for any integer x (two's complement: -1 & 0xFF = 255)
Mask8(x) == x % 256
Mask16(x) == x % 65536

\* (pair[HIGH] << 8) + pair[LOW]
Combine(pair) == Shl(pair[HIGH], 8) + pair[LOW]

\* [val >> 8, val & 0xFF]
Split(val) == <<Shr(val, 8), Mask8(val)>>

\* Variant: the loop leaves one iteration out.
TickLoop_one_short(t, n) == IF n = 0 THEN t ELSE t + n - 1


\* tick(): the while loop that adds 1 to __ticks, `n` times
RECURSIVE TickLoop(_, _)
TickLoop(t, n) == IF n = 0 THEN t ELSE TickLoop(t + 1, n - 1)

tick(n) == ticks' = TickLoop(ticks, n)

\* ------------------------------------------------------------------------
\* __init__: registers zeroed, the dispatch table
\* ------------------------------------------------------------------------
opcode_table ==
    \h00 :> "nop" @@ \h01 :> "ld_16bit_bc" @@ \h02 :> "ld_8bit_bc_a" @@
    \h03 :> "inc_16bit_bc" @@ \h04 :> "inc_8bit_b" @@ \h05 :> "dec_8bit_b" @@
    \h06 :> "ld_8bit_b_d8" @@ \h07 :> "rlca" @@ \h08 :> "ld_16bit_a16_sp" @@
    \h09 :> "add_16bit_hl_bc" @@ \h0A :> "ld_8bit_a_bc" @@ \h0B :> "dec_16bit_bc" @@
    \h0C :> "inc_8bit_c" @@ \h0D :> "dec_8bit_c" @@ \h0E :> "ld_8bit_c_d8" @@
    \h0F :> "rrca" @@ \h10 :> "stop" @@ \h11 :> "ld_16bit_de" @@
    \h12 :> "ld_8bit_de_a" @@ \h13 :> "inc_16bit_de" @@ \h14 :> "inc_8bit_d" @@
    \h15 :> "dec_8bit_d" @@ \h16 :> "ld_8bit_d_d8" @@ \h17 :> "rla" @@
    \h18 :> "jr_8bit_r8" @@ \h19 :> "add_16bit_hl_de" @@ \h1A :> "ld_8bit_a_de" @@
    \h1B :> "dec_16bit_de" @@ \h1C :> "inc_8bit_e" @@ \h1D :> "dec_8bit_e" @@
    \h1E :> "ld_8bit_e_d8" @@ \h1F :> "rra" @@ \h20 :> "jr_8bit_nz_r8" @@
    \h21 :> "ld_16bit_hl" @@ \h22 :> "ld_8bit_hli_a" @@ \h23 :> "inc_16bit_hl" @@
    \h24 :> "inc_8bit_h" @@ \h25 :> "dec_8bit_h" @@ \h26 :> "ld_8bit_h_d8"

\* ------------------------------------------------------------------------
\* The cartridge parser (src/cartridge): the header layout and parse_file.
\* ------------------------------------------------------------------------
HeaderMemAddresses ==
    [ENTRY_POINT |-> \h100, LOGO |-> \h104, TITLE |-> \h134,
     MANUF_CODE |-> \h13F, CGB_FLAG |-> \h143, NEW_LICS_CODE |-> \h144,
     SGB_FLAG |-> \h146, CART_TYPE |-> \h147, ROM_SIZE |-> \h148,
     RAM_SIZE |-> \h149, DEST_CODE |-> \h14A, OLD_LICS_CODE |-> \h14B,
     MASK_ROM_VER_NUM |-> \h14C, HEADER_CHKSM |-> \h14D,
     GLOBAL_CHKSM |-> \h14E]

HeaderSize ==
    [ENTRY_POINT |-> 4, LOGO |-> 48, TITLE |-> 16, MANUF_CODE |-> 4,
     CGB_FLAG |-> 1, NEW_LICS_CODE |-> 2, SGB_FLAG |-> 1, CART_TYPE |-> 1,
     ROM_SIZE |-> 1, RAM_SIZE |-> 1, DEST_CODE |-> 1, OLD_LICS_CODE |-> 1,
     MASK_ROM_VER_NUM |-> 1, HEADER_CHKSM |-> 1, GLOBAL_CHKSM |-> 2]

\* Python's s[a:b] for 0 <= a <= b: both ends are clamped to len(s), so a
\* slice of a short sequence is short or empty and never raises.
PySlice(s, a, b) ==
    LET lo == IF a < Len(s) THEN a ELSE Len(s)
        hi == IF b < Len(s) THEN b ELSE Len(s)
    IN  SubSeq(s, lo + 1, hi)

\* file_data[HeaderMemAddresses.X : HeaderMemAddresses.X + HeaderSize.X]
HeaderField(file_data, name) ==
    PySlice(file_data, HeaderMemAddresses[name],
            HeaderMemAddresses[name] + HeaderSize[name])

\* The parser after ROMParser.__init__: every field is None; rom_file is the
\* content of the file at rom_file_path.
ROMParser(rom_file) ==
    [pos |-> "constructed", rom_file |-> rom_file, file_data |-> "None",
     entry |-> "None", logo |-> "None", title |-> "None",
     manuf_code |-> "None", cgb_flag |-> "None", new_lic_code |-> "None",
     sgb_flag |-> "None", cart_type |-> "None", rom_size |-> "None",
     ram_size |-> "None", dest_code |-> "None", old_lic_code |-> "None",
     mask_rom_ver |-> "None", header_chksm |-> "None",
     global_chksm |-> "None", game_data |-> "None"]

\* A GameBoyColorCPU built straight from a byte sequence: no parser exists.
NoParser == [pos |-> "absent"]

\* parse_file: read the file, slice out every header field, and take the
\* game data from GLOBAL_CHKSM + size + 1 to the end of the file.
parse_file ==
    /\ parser.pos = "constructed"
    /\ LET file_data == parser.rom_file
       IN  parser' =
             [pos |-> "parsed",
              rom_file |-> parser.rom_file,
              file_data |-> file_data,
              entry |-> HeaderField(file_data, "ENTRY_POINT"),
              logo |-> HeaderField(file_data, "LOGO"),
              title |-> HeaderField(file_data, "TITLE"),
              manuf_code |-> HeaderField(file_data, "MANUF_CODE"),
              cgb_flag |-> HeaderField(file_data, "CGB_FLAG"),
              new_lic_code |-> HeaderField(file_data, "NEW_LICS_CODE"),
              sgb_flag |-> HeaderField(file_data, "SGB_FLAG"),
              cart_type |-> HeaderField(file_data, "CART_TYPE"),
              rom_size |-> HeaderField(file_data, "ROM_SIZE"),
              ram_size |-> HeaderField(file_data, "RAM_SIZE"),
              dest_code |-> HeaderField(file_data, "DEST_CODE"),
              old_lic_code |-> HeaderField(file_data, "OLD_LICS_CODE"),
              mask_rom_ver |-> HeaderField(file_data, "MASK_ROM_VER_NUM"),
              header_chksm |-> HeaderField(file_data, "HEADER_CHKSM"),
              global_chksm |-> HeaderField(file_data, "GLOBAL_CHKSM"),
              game_data |->
                  PySlice(file_data,
                          HeaderMemAddresses.GLOBAL_CHKSM
                              + HeaderSize.GLOBAL_CHKSM + 1,
                          Len(file_data))]
    /\ UNCHANGED <<regs, PC, ticks, game_data, status>>


\* The state __init__ leaves, over the program memory `data`.
Constructed(data) ==
    /\ AF = <<0, 0>>
    /\ BC = <<0, 0>>
    /\ DE = <<0, 0>>
    /\ HL = <<0, 0>>
    /\ SP = 0
    /\ PC = 0
    /\ ticks = 0
    /\ game_data = data
    /\ status = "running"
    /\ parser = NoParser

\* ------------------------------------------------------------------------
\* main_loop: fetch and dispatch
\* ------------------------------------------------------------------------
\* The loop is still going.  A program that jumps onto itself never ends and
\* its clock grows without bound; TickBudget stops such a run.  No
\* instruction charges more than 12 cycles per byte it advances PC by, so a
\* run whose PC keeps advancing is never cut short by the budget.
TickBudget == 12 * DataLen + MaxLoopTicks

Running == status = "running" /\ ticks < TickBudget

\* op_code = self.__game_data[self.__PC] succeeded and is not 0x10, and the
\* table maps it to the method `name`.
Dispatch(name) ==
    /\ Running
    /\ InBounds(PC)
    /\ GetItem(PC) # \h10
    /\ GetItem(PC) \in DOMAIN opcode_table
    /\ opcode_table[GetItem(PC)] = name

\* An uncaught exception leaves main_loop.
Raise(err) == status' = err

\* self.__PC += n; self.tick(ticks=c); the loop goes on
Advance(n, c) ==
    /\ PC' = PC + n
    /\ tick(c)
    /\ UNCHANGED <<game_data, status>>

\* op_code = self.__game_data[self.__PC] raises IndexError
main_loop_fetch_error ==
    /\ Running
    /\ ~InBounds(PC)
    /\ Raise("IndexError")
    /\ UNCHANGED <<regs, PC, ticks, game_data>>
    /\ UNCHANGED parser

\* Variant: stop advances PC by one byte only.
main_loop_stop_len1 ==
    /\ Running
    /\ InBounds(PC)
    /\ GetItem(PC) = \h10
    /\ PC' = PC + 1
    /\ tick(4)
    /\ status' = "stopped"
    /\ UNCHANGED <<regs, game_data>>
    /\ UNCHANGED parser


\* if op_code == 0x10: PC += 2; tick(4); break
main_loop_stop ==
    /\ Running
    /\ InBounds(PC)
    /\ GetItem(PC) = \h10
    /\ PC' = PC + 2
    /\ tick(4)
    /\ status' = "stopped"
    /\ UNCHANGED <<regs, game_data>>
    /\ UNCHANGED parser

\* Variant: a byte with no table entry is skipped like a nop.
main_loop_key_skip ==
    /\ Running
    /\ InBounds(PC)
    /\ GetItem(PC) # \h10
    /\ GetItem(PC) \notin DOMAIN opcode_table
    /\ Advance(1, 4)
    /\ UNCHANGED regs
    /\ UNCHANGED parser


\* Variant: a byte with no table entry ends the loop like stop.
main_loop_key_stops ==
    /\ Running
    /\ InBounds(PC)
    /\ GetItem(PC) # \h10
    /\ GetItem(PC) \notin DOMAIN opcode_table
    /\ status' = "stopped"
    /\ UNCHANGED <<regs, PC, ticks, game_data>>
    /\ UNCHANGED parser


\* self.__opcode_table[op_code] raises KeyError
main_loop_key_error ==
    /\ Running
    /\ InBounds(PC)
    /\ GetItem(PC) # \h10
    /\ GetItem(PC) \notin DOMAIN opcode_table
    /\ Raise("KeyError")
    /\ UNCHANGED <<regs, PC, ticks, game_data>>
    /\ UNCHANGED parser

\* ------------------------------------------------------------------------
\* Instructions
\* ------------------------------------------------------------------------
nop ==
    /\ Dispatch("nop")
    /\ Advance(1, 4)
    /\ UNCHANGED regs
    /\ UNCHANGED parser

\* Variant: rlca sets Z when the rotated A is zero.
rlca_AF_zero_flag(af) ==
    LET carry == Shr(BitAnd(af[HIGH], \h80), 7)
        a == BitOr(Mask8(Shl(af[HIGH], 1)), carry)
        flags == BitOr(Shl(carry, 4), IF a = 0 THEN \h80 ELSE 0)
    IN  <<a, flags>>


\* Rotates: each yields the new [A, F].
rlca_AF(af) ==
    LET carry == Shr(BitAnd(af[HIGH], \h80), 7)
        flags == Shl(carry, 4)
    IN  <<BitOr(Mask8(Shl(af[HIGH], 1)), carry), flags>>

\* Variant: rla shifts in the bit rotated out, not the previous carry.
rla_AF_circular(af) ==
    LET new_carry == Shr(BitAnd(af[HIGH], \h80), 7)
        flags == Shl(new_carry, 4)
    IN  <<BitOr(Mask8(Shl(af[HIGH], 1)), new_carry), flags>>


rla_AF(af) ==
    LET carry == Shr(BitAnd(af[LOW], \h10), 4)
        new_carry == Shr(BitAnd(af[HIGH], \h80), 7)
        flags == Shl(new_carry, 4)
    IN  <<BitOr(Mask8(Shl(af[HIGH], 1)), carry), flags>>

rrca_AF(af) ==
    LET carry == BitAnd(af[HIGH], \h01)
        flags == Shl(carry, 4)
    IN  <<BitOr(Shr(af[HIGH], 1), Shl(carry, 7)), flags>>

rra_AF(af) ==
    LET carry == Shr(BitAnd(af[LOW], \h10), 4)
        new_carry == BitAnd(af[HIGH], \h01)
        flags == Shl(new_carry, 4)
    IN  <<BitOr(Shr(af[HIGH], 1), Shl(carry, 7)), flags>>

rlca ==
    /\ Dispatch("rlca")
    /\ AF' = rlca_AF(AF)
    /\ Advance(1, 4)
    /\ UNCHANGED <<BC, DE, HL, SP>>
    /\ UNCHANGED parser

rla ==
    /\ Dispatch("rla")
    /\ AF' = rla_AF(AF)
    /\ Advance(1, 4)
    /\ UNCHANGED <<BC, DE, HL, SP>>
    /\ UNCHANGED parser

rrca ==
    /\ Dispatch("rrca")
    /\ AF' = rrca_AF(AF)
    /\ Advance(1, 4)
    /\ UNCHANGED <<BC, DE, HL, SP>>
    /\ UNCHANGED parser

rra ==
    /\ Dispatch("rra")
    /\ AF' = rra_AF(AF)
    /\ Advance(1, 4)
    /\ UNCHANGED <<BC, DE, HL, SP>>
    /\ UNCHANGED parser

\* Variant: the jump also adds the instruction length.
jr_8bit_r8_plus_len ==
    /\ Dispatch("jr_8bit_r8")
    /\ IF InBounds(PC + 1)
       THEN /\ PC' = PC + 2 + GetItem(PC + 1)
            /\ tick(12)
            /\ UNCHANGED status
       ELSE /\ Raise("IndexError")
            /\ UNCHANGED <<PC, ticks>>
    /\ UNCHANGED <<regs, game_data>>
    /\ UNCHANGED parser


\* Relative jumps.  The operand read raises IndexError before PC is written.
jr_8bit_r8 ==
    /\ Dispatch("jr_8bit_r8")
    /\ IF InBounds(PC + 1)
       THEN /\ PC' = PC + GetItem(PC + 1)
            /\ tick(12)
            /\ UNCHANGED status
       ELSE /\ Raise("IndexError")
            /\ UNCHANGED <<PC, ticks>>
    /\ UNCHANGED <<regs, game_data>>
    /\ UNCHANGED parser

\* Variant: the jump is taken when Z is set, as by jr z.
jr_z_taken(af) == BitAnd(af[LOW], \h80) # 0


\* not (F & 0x80): Z is clear
jr_nz_taken(af) == BitAnd(af[LOW], \h80) = 0

jr_8bit_nz_r8 ==
    /\ Dispatch("jr_8bit_nz_r8")
    /\ IF jr_nz_taken(AF)
       THEN IF InBounds(PC + 1)
            THEN /\ PC' = PC + GetItem(PC + 1)
                 /\ tick(12)
                 /\ UNCHANGED status
            ELSE /\ Raise("IndexError")
                 /\ UNCHANGED <<PC, ticks>>
       ELSE /\ tick(8)
            /\ UNCHANGED <<PC, status>>
    /\ UNCHANGED <<regs, game_data>>
    /\ UNCHANGED parser

\* Variant: half-carry taken from bit 7 instead of bit 11.
add_16bit_hl_bit7(hl, rr) ==
    LET val_hl == Combine(hl)
        val_rr == Combine(rr)
        bit_11_carry == Shr(BitAnd(val_hl, \h00FF) + BitAnd(val_rr, \h00FF), 8)
        sum == val_hl + val_rr
        bit_15_carry == Shr(sum, 16)
        flags == BitOr(BitOr(0, Shl(bit_11_carry, 5)), Shl(bit_15_carry, 4))
    IN  [HL |-> Split(Mask16(sum)), F |-> flags]


\* add hl, rr: yields [new HL, new F]
add_16bit_hl(hl, rr) ==
    LET val_hl == Combine(hl)
        val_rr == Combine(rr)
        bit_11_carry == Shr(BitAnd(val_hl, \h0FFF) + BitAnd(val_rr, \h0FFF), 12)
        sum == val_hl + val_rr
        bit_15_carry == Shr(sum, 16)
        flags == BitOr(BitOr(0, Shl(bit_11_carry, 5)), Shl(bit_15_carry, 4))
    IN  [HL |-> Split(Mask16(sum)), F |-> flags]

add_16bit_hl_bc ==
    /\ Dispatch("add_16bit_hl_bc")
    /\ HL' = add_16bit_hl(HL, BC).HL
    /\ AF' = <<AF[HIGH], add_16bit_hl(HL, BC).F>>
    /\ Advance(1, 8)
    /\ UNCHANGED <<BC, DE, SP>>
    /\ UNCHANGED parser

add_16bit_hl_de ==
    /\ Dispatch("add_16bit_hl_de")
    /\ HL' = add_16bit_hl(HL, DE).HL
    /\ AF' = <<AF[HIGH], add_16bit_hl(HL, DE).F>>
    /\ Advance(1, 8)
    /\ UNCHANGED <<BC, DE, SP>>
    /\ UNCHANGED parser

\* Indirect loads and stores: memory_location is computed and dropped (the
\* transfer is a TODO in the source); only PC and the clock move.
ld_8bit_a_bc ==
    /\ Dispatch("ld_8bit_a_bc")
    /\ LET memory_location == Combine(BC) IN TRUE
    /\ Advance(1, 8)
    /\ UNCHANGED regs
    /\ UNCHANGED parser

ld_8bit_a_de ==
    /\ Dispatch("ld_8bit_a_de")
    /\ LET memory_location == Combine(DE) IN TRUE
    /\ Advance(1, 8)
    /\ UNCHANGED regs
    /\ UNCHANGED parser

ld_8bit_bc_a ==
    /\ Dispatch("ld_8bit_bc_a")
    /\ LET memory_location == Combine(BC) IN TRUE
    /\ Advance(1, 8)
    /\ UNCHANGED regs
    /\ UNCHANGED parser

ld_8bit_de_a ==
    /\ Dispatch("ld_8bit_de_a")
    /\ LET memory_location == Combine(DE) IN TRUE
    /\ Advance(1, 8)
    /\ UNCHANGED regs
    /\ UNCHANGED parser

\* Variant: HL is decremented, as by ld (hl-), a.
ld_8bit_hld_a_HL(hl) ==
    LET memory_location == Combine(hl)
        val == Mask16(memory_location - 1)
    IN  Split(val)


\* val = memory_location + 1; val &= 0xFFFF; HL = [val >> 8, val & 0xFF]
ld_8bit_hli_a_HL(hl) ==
    LET memory_location == Combine(hl)
        val == Mask16(memory_location + 1)
    IN  Split(val)

ld_8bit_hli_a ==
    /\ Dispatch("ld_8bit_hli_a")
    /\ HL' = ld_8bit_hli_a_HL(HL)
    /\ Advance(1, 8)
    /\ UNCHANGED <<AF, BC, DE, SP>>
    /\ UNCHANGED parser

\* 8-bit immediate loads: pair[half] = game_data[PC + 1].  The read raises
\* IndexError before anything is written.
SetHalf(pair, half, val) == [pair EXCEPT ![half] = val]

ld_8bit_b_d8 ==
    /\ Dispatch("ld_8bit_b_d8")
    /\ IF InBounds(PC + 1)
       THEN /\ BC' = SetHalf(BC, HIGH, GetItem(PC + 1))
            /\ Advance(2, 8)
       ELSE /\ Raise("IndexError")
            /\ UNCHANGED <<BC, PC, ticks, game_data>>
    /\ UNCHANGED <<AF, DE, HL, SP>>
    /\ UNCHANGED parser

ld_8bit_c_d8 ==
    /\ Dispatch("ld_8bit_c_d8")
    /\ IF InBounds(PC + 1)
       THEN /\ BC' = SetHalf(BC, LOW, GetItem(PC + 1))
            /\ Advance(2, 8)
       ELSE /\ Raise("IndexError")
            /\ UNCHANGED <<BC, PC, ticks, game_data>>
    /\ UNCHANGED <<AF, DE, HL, SP>>
    /\ UNCHANGED parser

ld_8bit_d_d8 ==
    /\ Dispatch("ld_8bit_d_d8")
    /\ IF InBounds(PC + 1)
       THEN /\ DE' = SetHalf(DE, HIGH, GetItem(PC + 1))
            /\ Advance(2, 8)
       ELSE /\ Raise("IndexError")
            /\ UNCHANGED <<DE, PC, ticks, game_data>>
    /\ UNCHANGED <<AF, BC, HL, SP>>
    /\ UNCHANGED parser

ld_8bit_e_d8 ==
    /\ Dispatch("ld_8bit_e_d8")
    /\ IF InBounds(PC + 1)
       THEN /\ DE' = SetHalf(DE, LOW, GetItem(PC + 1))
            /\ Advance(2, 8)
       ELSE /\ Raise("IndexError")
            /\ UNCHANGED <<DE, PC, ticks, game_data>>
    /\ UNCHANGED <<AF, BC, HL, SP>>
    /\ UNCHANGED parser

ld_8bit_h_d8 ==
    /\ Dispatch("ld_8bit_h_d8")
    /\ IF InBounds(PC + 1)
       THEN /\ HL' = SetHalf(HL, HIGH, GetItem(PC + 1))
            /\ Advance(2, 8)
       ELSE /\ Raise("IndexError")
            /\ UNCHANGED <<HL, PC, ticks, game_data>>
    /\ UNCHANGED <<AF, BC, DE, SP>>
    /\ UNCHANGED parser

\* Variant: the operand is read low byte first.
ld_16bit_bc_low_first ==
    /\ Dispatch("ld_16bit_bc")
    /\ IF ~InBounds(PC + 1)
       THEN /\ Raise("IndexError")
            /\ UNCHANGED <<BC, PC, ticks, game_data>>
       ELSE IF ~InBounds(PC + 2)
       THEN /\ BC' = SetHalf(BC, LOW, GetItem(PC + 1))
            /\ Raise("IndexError")
            /\ UNCHANGED <<PC, ticks, game_data>>
       ELSE /\ BC' = SetHalf(SetHalf(BC, LOW, GetItem(PC + 1)), HIGH, GetItem(PC + 2))
            /\ Advance(3, 12)
    /\ UNCHANGED <<AF, DE, HL, SP>>
    /\ UNCHANGED parser


\* 16-bit immediate loads: the high half is assigned from game_data[PC + 1]
\* before game_data[PC + 2] is read, so an IndexError raised by the second
\* read leaves the first assignment in place.
ld_16bit_bc ==
    /\ Dispatch("ld_16bit_bc")
    /\ IF ~InBounds(PC + 1)
       THEN /\ Raise("IndexError")
            /\ UNCHANGED <<BC, PC, ticks, game_data>>
       ELSE IF ~InBounds(PC + 2)
       THEN /\ BC' = SetHalf(BC, HIGH, GetItem(PC + 1))
            /\ Raise("IndexError")
            /\ UNCHANGED <<PC, ticks, game_data>>
       ELSE /\ BC' = SetHalf(SetHalf(BC, HIGH, GetItem(PC + 1)), LOW, GetItem(PC + 2))
            /\ Advance(3, 12)
    /\ UNCHANGED <<AF, DE, HL, SP>>
    /\ UNCHANGED parser

ld_16bit_de ==
    /\ Dispatch("ld_16bit_de")
    /\ IF ~InBounds(PC + 1)
       THEN /\ Raise("IndexError")
            /\ UNCHANGED <<DE, PC, ticks, game_data>>
       ELSE IF ~InBounds(PC + 2)
       THEN /\ DE' = SetHalf(DE, HIGH, GetItem(PC + 1))
            /\ Raise("IndexError")
            /\ UNCHANGED <<PC, ticks, game_data>>
       ELSE /\ DE' = SetHalf(SetHalf(DE, HIGH, GetItem(PC + 1)), LOW, GetItem(PC + 2))
            /\ Advance(3, 12)
    /\ UNCHANGED <<AF, BC, HL, SP>>
    /\ UNCHANGED parser

ld_16bit_hl ==
    /\ Dispatch("ld_16bit_hl")
    /\ IF ~InBounds(PC + 1)
       THEN /\ Raise("IndexError")
            /\ UNCHANGED <<HL, PC, ticks, game_data>>
       ELSE IF ~InBounds(PC + 2)
       THEN /\ HL' = SetHalf(HL, HIGH, GetItem(PC + 1))
            /\ Raise("IndexError")
            /\ UNCHANGED <<PC, ticks, game_data>>
       ELSE /\ HL' = SetHalf(SetHalf(HL, HIGH, GetItem(PC + 1)), LOW, GetItem(PC + 2))
            /\ Advance(3, 12)
    /\ UNCHANGED <<AF, BC, DE, SP>>
    /\ UNCHANGED parser

\* ld (a16), sp: both operand bytes are read into memory_location, which is
\* dropped; either read may raise IndexError.
ld_16bit_a16_sp ==
    /\ Dispatch("ld_16bit_a16_sp")
    /\ IF InBounds(PC + 1) /\ InBounds(PC + 2)
       THEN /\ LET memory_location == Shl(GetItem(PC + 1), 8) + GetItem(PC + 2) IN TRUE
            /\ Advance(3, 20)
       ELSE /\ Raise("IndexError")
            /\ UNCHANGED <<PC, ticks, game_data>>
    /\ UNCHANGED regs
    /\ UNCHANGED parser

\* `self.__BC == 0` compares a Python list with an int: a list never equals
\* an int, so the comparison is False whatever the list holds.
PyListEqInt(pair, n) == FALSE

\* flags = flags | 0x80 if pair == 0 else flags & 0x7F
ZFlag(flags, pair) ==
    IF PyListEqInt(pair, 0) THEN BitOr(flags, \h80) ELSE BitAnd(flags, \h7F)

\* Variant: the incremented half is not masked to 8 bits.
inc_8bit_nomask(pair, half) ==
    LET p == SetHalf(pair, half, pair[half] + 1)
    IN  [pair |-> p, F |-> ZFlag(0, p)]


\* inc r: pair[half] += 1; pair[half] &= 0xFF; flags start from 0b00000000
inc_8bit(pair, half) ==
    LET p == SetHalf(pair, half, Mask8(pair[half] + 1))
    IN  [pair |-> p, F |-> ZFlag(0, p)]

\* Variant: the flags start from 0b01000100.
dec_8bit_low_nibble(pair, half) ==
    LET p == SetHalf(pair, half, Mask8(pair[half] - 1))
    IN  [pair |-> p, F |-> ZFlag(\h44, p)]


\* dec r: pair[half] -= 1; pair[half] &= 0xFF; flags start from 0b01000000
dec_8bit(pair, half) ==
    LET p == SetHalf(pair, half, Mask8(pair[half] - 1))
    IN  [pair |-> p, F |-> ZFlag(\h40, p)]

inc_8bit_b ==
    /\ Dispatch("inc_8bit_b")
    /\ BC' = inc_8bit(BC, HIGH).pair
    /\ AF' = <<AF[HIGH], inc_8bit(BC, HIGH).F>>
    /\ Advance(1, 4)
    /\ UNCHANGED <<DE, HL, SP>>
    /\ UNCHANGED parser

inc_8bit_c ==
    /\ Dispatch("inc_8bit_c")
    /\ BC' = inc_8bit(BC, LOW).pair
    /\ AF' = <<AF[HIGH], inc_8bit(BC, LOW).F>>
    /\ Advance(1, 4)
    /\ UNCHANGED <<DE, HL, SP>>
    /\ UNCHANGED parser

inc_8bit_d ==
    /\ Dispatch("inc_8bit_d")
    /\ DE' = inc_8bit(DE, HIGH).pair
    /\ AF' = <<AF[HIGH], inc_8bit(DE, HIGH).F>>
    /\ Advance(1, 4)
    /\ UNCHANGED <<BC, HL, SP>>
    /\ UNCHANGED parser

inc_8bit_e ==
    /\ Dispatch("inc_8bit_e")
    /\ DE' = inc_8bit(DE, LOW).pair
    /\ AF' = <<AF[HIGH], inc_8bit(DE, LOW).F>>
    /\ Advance(1, 4)
    /\ UNCHANGED <<BC, HL, SP>>
    /\ UNCHANGED parser

inc_8bit_h ==
    /\ Dispatch("inc_8bit_h")
    /\ HL' = inc_8bit(HL, HIGH).pair
    /\ AF' = <<AF[HIGH], inc_8bit(HL, HIGH).F>>
    /\ Advance(1, 4)
    /\ UNCHANGED <<BC, DE, SP>>
    /\ UNCHANGED parser

dec_8bit_b ==
    /\ Dispatch("dec_8bit_b")
    /\ BC' = dec_8bit(BC, HIGH).pair
    /\ AF' = <<AF[HIGH], dec_8bit(BC, HIGH).F>>
    /\ Advance(1, 4)
    /\ UNCHANGED <<DE, HL, SP>>
    /\ UNCHANGED parser

dec_8bit_c ==
    /\ Dispatch("dec_8bit_c")
    /\ BC' = dec_8bit(BC, LOW).pair
    /\ AF' = <<AF[HIGH], dec_8bit(BC, LOW).F>>
    /\ Advance(1, 4)
    /\ UNCHANGED <<DE, HL, SP>>
    /\ UNCHANGED parser

dec_8bit_d ==
    /\ Dispatch("dec_8bit_d")
    /\ DE' = dec_8bit(DE, HIGH).pair
    /\ AF' = <<AF[HIGH], dec_8bit(DE, HIGH).F>>
    /\ Advance(1, 4)
    /\ UNCHANGED <<BC, HL, SP>>
    /\ UNCHANGED parser

dec_8bit_e ==
    /\ Dispatch("dec_8bit_e")
    /\ DE' = dec_8bit(DE, LOW).pair
    /\ AF' = <<AF[HIGH], dec_8bit(DE, LOW).F>>
    /\ Advance(1, 4)
    /\ UNCHANGED <<BC, HL, SP>>
    /\ UNCHANGED parser

dec_8bit_h ==
    /\ Dispatch("dec_8bit_h")
    /\ HL' = dec_8bit(HL, HIGH).pair
    /\ AF' = <<AF[HIGH], dec_8bit(HL, HIGH).F>>
    /\ Advance(1, 4)
    /\ UNCHANGED <<BC, DE, SP>>
    /\ UNCHANGED parser

\* inc rr / dec rr: val = combined +/- 1; val &= 0xFFFF; split back
\* Variant: the successor is not masked to 16 bits.
inc_16bit_nomask(pair) == Split(Combine(pair) + 1)


inc_16bit(pair) == Split(Mask16(Combine(pair) + 1))

dec_16bit(pair) == Split(Mask16(Combine(pair) - 1))

inc_16bit_bc ==
    /\ Dispatch("inc_16bit_bc")
    /\ BC' = inc_16bit(BC)
    /\ Advance(1, 8)
    /\ UNCHANGED <<AF, DE, HL, SP>>
    /\ UNCHANGED parser

inc_16bit_de ==
    /\ Dispatch("inc_16bit_de")
    /\ DE' = inc_16bit(DE)
    /\ Advance(1, 8)
    /\ UNCHANGED <<AF, BC, HL, SP>>
    /\ UNCHANGED parser

inc_16bit_hl ==
    /\ Dispatch("inc_16bit_hl")
    /\ HL' = inc_16bit(HL)
    /\ Advance(1, 8)
    /\ UNCHANGED <<AF, BC, DE, SP>>
    /\ UNCHANGED parser

dec_16bit_bc ==
    /\ Dispatch("dec_16bit_bc")
    /\ BC' = dec_16bit(BC)
    /\ Advance(1, 8)
    /\ UNCHANGED <<AF, DE, HL, SP>>
    /\ UNCHANGED parser

dec_16bit_de ==
    /\ Dispatch("dec_16bit_de")
    /\ DE' = dec_16bit(DE)
    /\ Advance(1, 8)
    /\ UNCHANGED <<AF, BC, HL, SP>>
    /\ UNCHANGED parser

\* One iteration of main_loop.
main_loop ==
    \/ main_loop_fetch_error
    \/ main_loop_stop
    \/ main_loop_key_error
    \/ nop
    \/ rlca
    \/ rla
    \/ rrca
    \/ rra
    \/ jr_8bit_r8
    \/ jr_8bit_nz_r8
    \/ add_16bit_hl_bc
    \/ add_16bit_hl_de
    \/ ld_8bit_a_bc
    \/ ld_8bit_a_de
    \/ ld_8bit_bc_a
    \/ ld_8bit_de_a
    \/ ld_8bit_hli_a
    \/ ld_8bit_b_d8
    \/ ld_8bit_c_d8
    \/ ld_8bit_d_d8
    \/ ld_8bit_e_d8
    \/ ld_8bit_h_d8
    \/ ld_16bit_bc
    \/ ld_16bit_de
    \/ ld_16bit_hl
    \/ ld_16bit_a16_sp
    \/ inc_8bit_b
    \/ inc_8bit_c
    \/ inc_8bit_d
    \/ inc_8bit_e
    \/ inc_8bit_h
    \/ dec_8bit_b
    \/ dec_8bit_c
    \/ dec_8bit_d
    \/ dec_8bit_e
    \/ dec_8bit_h
    \/ inc_16bit_bc
    \/ inc_16bit_de
    \/ inc_16bit_hl
    \/ dec_16bit_bc
    \/ dec_16bit_de

\* ------------------------------------------------------------------------
\* Specifications
\* ------------------------------------------------------------------------
\* A memory written out byte by byte.
Mem(bytes) == [bytes |-> bytes, fill |-> 0, nfill |-> 0]

\* Every opcode of the table, two bytes the table has no entry for.
Alphabet == (\h00 .. \h27) \cup {\hFF}

\* nop, ld bc d16, add hl bc, dec bc, stop, jr, jr nz, 0xFF
CoreBytes == {\h00, \h01, \h09, \h0B, \h10, \h18, \h20, \hFF}

\* Spec: main_loop run from construction, over every program memory of at
\* most MaxLen bytes in which all bytes but at most one are CoreBytes and
\* the remaining one is any byte of Alphabet.
Init ==
    \E k \in 0..MaxLen : \E c \in [1..k -> CoreBytes] :
        \E i \in 0..k : \E b \in Alphabet :
            Constructed(Mem(IF i = 0 THEN c ELSE [c EXCEPT ![i] = b]))

Spec == Init /\ [][main_loop]_vars

\* SpecOp: one instruction run by main_loop from a register state a test
\* harness prepared.  The AF, BC, DE and HL properties return the register
\* lists themselves, so a caller can store any bytes in them before it
\* calls main_loop; PC, SP and the clock have no such access and start at
\* zero.  The instruction sits behind `pad` nop bytes and is followed by
\* its operand bytes, or by fewer bytes than it reads.
Rotates == {\h07, \h0F, \h17, \h1F}
Jumps == {\h18, \h20}
Imm8 == {\h06, \h0E, \h16, \h1E, \h26}
Imm16 == {\h01, \h08, \h11, \h21}
Arith == {\h03, \h04, \h05, \h09, \h0B, \h0C, \h0D, \h13, \h14, \h15, \h19,
          \h1B, \h1C, \h1D, \h22, \h23, \h24, \h25}

ByteInputs == {\h00, \h05, \h12, \h34, \hFF}
FlagInputs == {\h00, \h10, \h80, \hF0}
PairInputs == {<<\h00, \h00>>, <<\h00, \h01>>, <<\h00, \hFF>>, <<\h0F, \hFF>>,
               <<\hF0, \h00>>, <<\hFF, \hFF>>}

AInputs(op) == IF op \in Rotates THEN 0..255 ELSE {\h85}
RegInputs(op) == IF op \in Arith THEN PairInputs ELSE {<<\h12, \h34>>}
Operand1(op) ==
    IF op \in Jumps THEN 0..255
    ELSE IF op \in Imm8 \cup Imm16 THEN ByteInputs ELSE {\h10}
Operand2(op) == IF op \in Imm16 THEN ByteInputs ELSE {\h10}
Lengths(op) == IF op \in Jumps \cup Imm8 \cup Imm16 THEN 1..3 ELSE {1}
Pads(op) == IF op \in Jumps \cup {\h00, \h10} THEN 0..MaxPad ELSE {0}

Nops(n) == [i \in 1..n |-> \h00]

InitOp ==
    \E op \in Alphabet :
        \E a \in AInputs(op), f \in FlagInputs :
        \E bc \in RegInputs(op), de \in RegInputs(op), hl \in RegInputs(op) :
        \E b1 \in Operand1(op), b2 \in Operand2(op) :
        \E n \in Lengths(op), pad \in Pads(op) :
            /\ AF = <<a, f>>
            /\ BC = bc
            /\ DE = de
            /\ HL = hl
            /\ SP = 0
            /\ PC = 0
            /\ ticks = 0
            /\ game_data = Mem(Nops(pad) \o SubSeq(<<op, b1, b2>>, 1, n))
            /\ status = "running"
            /\ parser = NoParser

SpecOp == InitOp /\ [][main_loop]_vars

\* SpecPC: main_loop run from construction over a memory of 0x10000 equal
\* bytes: nops, stops, or relative jumps whose displacement is their own
\* opcode.
WordSize == Pow2(16)

InitPC ==
    \E f \in {\h00, \h10, \h18, \h20} :
        Constructed([bytes |-> <<>>, fill |-> f, nfill |-> WordSize])

NextPC ==
    \/ main_loop_fetch_error
    \/ main_loop_stop
    \/ nop
    \/ jr_8bit_r8
    \/ jr_8bit_nz_r8

SpecPC == InitPC /\ [][NextPC]_vars

\* SpecWrap: main_loop run over a memory that repeats one increment or
\* decrement opcode 0x100 times (8-bit forms) or 0x10000 times (16-bit
\* forms).  BC, DE and HL start at one common value the harness stored, so
\* a pair the instruction does not name keeps the starting value; F starts
\* with all four flags set.
Inc8 == {\h04, \h0C, \h14, \h1C, \h24}
Dec8 == {\h05, \h0D, \h15, \h1D, \h25}
Inc16 == {\h03, \h13, \h23}
Dec16 == {\h0B, \h1B}

Period(op) == IF op \in Inc8 \cup Dec8 THEN Pow2(8) ELSE WordSize

WrapStarts(op) == IF op \in Inc8 \cup Dec8 THEN PairInputs ELSE {<<\h12, \h34>>}

InitWrap ==
    \E op \in Inc8 \cup Dec8 \cup Inc16 \cup Dec16 : \E s \in WrapStarts(op) :
        /\ AF = <<\h85, \hF0>>
        /\ BC = s
        /\ DE = s
        /\ HL = s
        /\ SP = 0
        /\ PC = 0
        /\ ticks = 0
        /\ game_data = [bytes |-> <<>>, fill |-> op, nfill |-> Period(op)]
        /\ status = "running"
        /\ parser = NoParser

NextWrap ==
    \/ main_loop_fetch_error
    \/ inc_8bit_b \/ inc_8bit_c \/ inc_8bit_d \/ inc_8bit_e \/ inc_8bit_h
    \/ dec_8bit_b \/ dec_8bit_c \/ dec_8bit_d \/ dec_8bit_e \/ dec_8bit_h
    \/ inc_16bit_bc \/ inc_16bit_de \/ inc_16bit_hl
    \/ dec_16bit_bc \/ dec_16bit_de

SpecWrap == InitWrap /\ [][NextWrap]_vars


\* SpecParse: the script at the foot of cpu.py up to the construction of
\* the CPU: a ROMParser over a ROM file, parse_file, then
\* GameBoyColorCPU(parser.game_data).  The files are empty, end inside or
\* at the end of the header, or hold up to MaxGame bytes past offset 0x150;
\* byte i of a file is seed + step * i modulo 256.  Until the CPU is
\* constructed its variables hold placeholders and status is "absent".
RomLengths == {0, \h100, \h14F, \h150} \cup (\h151 .. \h150 + MaxGame)

RomFile(n, seed, step) == [i \in 1..n |-> (seed + step * (i - 1)) % 256]

InitParse ==
    \E n \in RomLengths, seed \in {\h00, \h01, \h10, \h3C, \hC3, \hFF},
       step \in {0, 1, 7} :
        /\ parser = ROMParser(RomFile(n, seed, step))
        /\ AF = <<0, 0>>
        /\ BC = <<0, 0>>
        /\ DE = <<0, 0>>
        /\ HL = <<0, 0>>
        /\ SP = 0
        /\ PC = 0
        /\ ticks = 0
        /\ game_data = Mem(<<>>)
        /\ status = "absent"

\* cpu = GameBoyColorCPU(parser.game_data)
main_cpu ==
    /\ parser.pos = "parsed"
    /\ status = "absent"
    /\ AF' = <<0, 0>>
    /\ BC' = <<0, 0>>
    /\ DE' = <<0, 0>>
    /\ HL' = <<0, 0>>
    /\ SP' = 0
    /\ PC' = 0
    /\ ticks' = 0
    /\ game_data' = Mem(parser.game_data)
    /\ status' = "running"
    /\ UNCHANGED parser

NextParse ==
    \/ parse_file
    \/ main_cpu

SpecParse == InitParse /\ [][NextParse]_vars


\* ------------------------------------------------------------------------
\* Properties
\* ------------------------------------------------------------------------
\* The flags of F, as 0 or 1.
FlagZ(f) == (f \div 128) % 2
FlagN(f) == (f \div 64) % 2
FlagH(f) == (f \div 32) % 2
FlagC(f) == (f \div 16) % 2

\* main_loop is about to fetch the byte `op` at PC.
Fetches(op) == status = "running" /\ PC >= 0 /\ PC < DataLen /\ ByteAt(PC) = op

\* The operand bytes the instruction `op` reads after its opcode.
OperandCount(op) ==
    IF op \in {\h06, \h0E, \h16, \h1E, \h26, \h18, \h20} THEN 1
    ELSE IF op \in {\h01, \h11, \h21, \h08} THEN 2
    ELSE 0

\* C1: whenever main_loop fetches 0x10 the loop ends in that iteration with
\* PC + 2, ticks + 4 and AF, BC, DE, HL, SP unchanged; from construction on
\* a memory whose byte 0 is 0x10 the run ends with PC = 2, ticks = 4 and
\* all registers zero.
C1_StopStep ==
    /\ [][Fetches(\h10) =>
            /\ status' = "stopped"
            /\ PC' = PC + 2
            /\ ticks' = ticks + 4
            /\ regs' = regs]_vars
    /\ [](DataLen > 0 /\ ByteAt(0) = \h10 /\ status # "running" =>
            /\ status = "stopped"
            /\ PC = 2
            /\ ticks = 4
            /\ regs = <<(<<0, 0>>), (<<0, 0>>), (<<0, 0>>), (<<0, 0>>), 0>>)

C1_Witness ==
    /\ status = "stopped"
    /\ DataLen > 0 /\ ByteAt(0) = \h10
    /\ PC = 2
    /\ ticks = 4

\* C2: jr nz, r8 with Z set advances PC by the instruction length 2,
\* charges 8 cycles and changes no register.
C2_NotTakenAdvances ==
    [][Fetches(\h20) /\ FlagZ(AF[LOW]) = 1 /\ ticks' # ticks =>
            /\ PC' = PC + 2
            /\ ticks' = ticks + 8
            /\ regs' = regs]_vars

\* C3: jr r8, and jr nz, r8 with Z clear, with the displacement byte d at
\* PC + 1, set PC to PC + d (d unsigned, no instruction length added),
\* charge 12 cycles and leave registers and flags unchanged.
C3_JumpTaken ==
    [][/\ Fetches(\h18) \/ (Fetches(\h20) /\ FlagZ(AF[LOW]) = 0)
       /\ PC + 1 < DataLen
       /\ ticks' # ticks
       =>
       /\ PC' = PC + ByteAt(PC + 1)
       /\ ticks' = ticks + 12
       /\ regs' = regs
       /\ status' = "running"]_vars

\* two nops, then a jump by 0xFF from PC = 2
C3_Witness ==
    /\ PC = 257
    /\ ticks = 20
    /\ DataLen = 4 /\ ByteAt(2) \in {\h18, \h20} /\ ByteAt(3) = \hFF

\* C4: a fetched byte that is not 0x10 and is above 0x26 ends the run with
\* the unimplemented-opcode error (KeyError) and leaves PC, the clock and
\* the registers as they were.
C4_Unimplemented ==
    [][(\E op \in 0..255 : Fetches(op) /\ op # \h10 /\ op > \h26) =>
            /\ status' = "KeyError"
            /\ PC' = PC
            /\ ticks' = ticks
            /\ regs' = regs]_vars

C4_Witness ==
    /\ status = "KeyError"
    /\ PC = 2
    /\ ticks = 8
    /\ ByteAt(PC) = \h27

C6_NoPartialUpdate ==
    [][status = "running" /\ status' \in {"IndexError", "KeyError"} =>
            /\ regs' = regs
            /\ PC' = PC
            /\ ticks' = ticks]_vars

\* C7: each half of AF, BC, DE and HL is in 0..0xFF, so each pair's
\* combined value is in 0..0xFFFF.
C7_HalvesInRange ==
    \A pair \in {AF, BC, DE, HL} :
        /\ pair[HIGH] \in 0..255
        /\ pair[LOW] \in 0..255
        /\ pair[HIGH] * 256 + pair[LOW] \in 0..65535

\* inc b on B = 0xFF wrapped to 0x00
C7_Witness ==
    /\ DataLen = 1 /\ ByteAt(0) = \h04
    /\ PC = 1
    /\ BC = <<\h00, \hFF>>

\* C8: PC and SP are in 0..0xFFFF in every reachable state, for memories
\* of any length.
C8_PCInRange == PC \in 0..65535 /\ SP \in 0..65535

\* C9: add hl, rr stores (HL + rr) mod 0x10000 into HL, sets H iff the low
\* 12 bits overflow, C iff the sum exceeds 0xFFFF, clears Z and N, leaves A
\* and rr unchanged, advances PC by 1 and charges 8 cycles.
AddHLPost(hl, rr) ==
    /\ HL'[HIGH] * 256 + HL'[LOW] = (hl + rr) % 65536
    /\ HL'[HIGH] \in 0..255 /\ HL'[LOW] \in 0..255
    /\ FlagH(AF'[LOW]) = (IF (hl % 4096) + (rr % 4096) > 4095 THEN 1 ELSE 0)
    /\ FlagC(AF'[LOW]) = (IF hl + rr > 65535 THEN 1 ELSE 0)
    /\ FlagZ(AF'[LOW]) = 0
    /\ FlagN(AF'[LOW]) = 0
    /\ AF'[HIGH] = AF[HIGH]
    /\ BC' = BC /\ DE' = DE /\ SP' = SP
    /\ PC' = PC + 1
    /\ ticks' = ticks + 8

C9_AddHL ==
    [][/\ Fetches(\h09) /\ ticks' # ticks
          => AddHLPost(HL[HIGH] * 256 + HL[LOW], BC[HIGH] * 256 + BC[LOW])
       /\ Fetches(\h19) /\ ticks' # ticks
          => AddHLPost(HL[HIGH] * 256 + HL[LOW], DE[HIGH] * 256 + DE[LOW])]_vars

\* add hl, bc on HL = 0x0FFF, BC = 0x0001: H set, C clear
C9_Witness ==
    /\ DataLen = 1 /\ ByteAt(0) = \h09
    /\ PC = 1
    /\ BC = <<\h00, \h01>>
    /\ HL = <<\h10, \h00>>
    /\ AF[LOW] = \h20

\* C10: each rotate sets C to the bit rotated out of A, clears Z, N and H,
\* sets A to the rotated value (the vacated bit takes the rotated-out bit
\* for rlca/rrca and the previous C for rla/rra), advances PC by 1 and
\* charges 4 cycles.
RotatePost(a, c) ==
    /\ AF'[HIGH] = a
    /\ AF'[LOW] = 16 * c
    /\ BC' = BC /\ DE' = DE /\ HL' = HL /\ SP' = SP
    /\ PC' = PC + 1
    /\ ticks' = ticks + 4

C10_Rotates ==
    [][LET a == AF[HIGH]
           c == FlagC(AF[LOW])
       IN  /\ Fetches(\h07) /\ ticks' # ticks
              => RotatePost(((2 * a) % 256) + (a \div 128), a \div 128)
           /\ Fetches(\h17) /\ ticks' # ticks
              => RotatePost(((2 * a) % 256) + c, a \div 128)
           /\ Fetches(\h0F) /\ ticks' # ticks
              => RotatePost((a \div 2) + 128 * (a % 2), a % 2)
           /\ Fetches(\h1F) /\ ticks' # ticks
              => RotatePost((a \div 2) + 128 * c, a % 2)]_vars

\* rlca on A = 0x85 gave A = 0x0B with C set
C10_Witness ==
    /\ DataLen = 1 /\ ByteAt(0) = \h07
    /\ PC = 1
    /\ AF = <<\h0B, \h10>>

\* C11: ld rr, d16 with the bytes b1, b2 at PC + 1 and PC + 2 sets the
\* pair's high half to b1 and its low half to b2, advances PC by 3, charges
\* 12 cycles and leaves every other register and the flags unchanged.
Ld16Post ==
    /\ PC' = PC + 3
    /\ ticks' = ticks + 12
    /\ AF' = AF /\ SP' = SP
    /\ status' = "running"

C11_Ld16 ==
    [][LET b1 == ByteAt(PC + 1)
           b2 == ByteAt(PC + 2)
       IN  /\ Fetches(\h01) /\ PC + 2 < DataLen /\ ticks' # ticks
              => BC' = <<b1, b2>> /\ DE' = DE /\ HL' = HL /\ Ld16Post
           /\ Fetches(\h11) /\ PC + 2 < DataLen /\ ticks' # ticks
              => DE' = <<b1, b2>> /\ BC' = BC /\ HL' = HL /\ Ld16Post
           /\ Fetches(\h21) /\ PC + 2 < DataLen /\ ticks' # ticks
              => HL' = <<b1, b2>> /\ BC' = BC /\ DE' = DE /\ Ld16Post]_vars

\* ld bc, d16 followed by 0x34, 0x12 gave B = 0x34, C = 0x12
C11_Witness ==
    /\ DataLen = 3 /\ ByteAt(0) = \h01 /\ ByteAt(1) = \h34 /\ ByteAt(2) = \h12
    /\ PC = 3
    /\ ticks = 12
    /\ BC = <<\h34, \h12>>

\* The pair an increment or decrement opcode names, the half the 8-bit
\* forms name, and the direction of the step.
WrapPair(op) ==
    IF op < \h10 THEN BC ELSE IF op < \h20 THEN DE ELSE HL

WrapHalf(op) == IF op % 16 \in {4, 5} THEN HIGH ELSE LOW

WrapStep(op) == IF op \in Inc8 \cup Inc16 THEN 1 ELSE -1

\* A pair the repeated opcode does not name still holds the starting value.
WrapStartValue(op) == IF op < \h10 THEN DE ELSE BC

\* C12: repeating one 8-bit inc/dec 256 times returns the register half to
\* its starting value, repeating one 16-bit inc/dec 65536 times returns the
\* pair to its starting value, and the 16-bit forms change no flag.  After
\* k repetitions (PC = k) the register holds start + k or start - k modulo
\* the period, so every value of the register occurs as a starting value of
\* a full period.
C12_Wraparound ==
    LET op == game_data.fill
        cur == WrapPair(op)
        start == WrapStartValue(op)
        half == WrapHalf(op)
    IN  IF op \in Inc8 \cup Dec8
        THEN /\ cur[half] = (start[half] + WrapStep(op) * PC) % 256
             /\ cur[3 - half] = start[3 - half]
             /\ PC = 256 => cur = start
        ELSE /\ Combine(cur) = (Combine(start) + WrapStep(op) * PC) % 65536
             /\ cur[HIGH] \in 0..255 /\ cur[LOW] \in 0..255
             /\ PC = 65536 => cur = start
             /\ AF = <<\h85, \hF0>>

\* dec bc ran 65536 times and BC is back at 0x1234, with every flag still set
C12_Witness ==
    /\ game_data.fill = \h0B
    /\ PC = 65536
    /\ ticks = 8 * 65536
    /\ BC = <<\h12, \h34>>
    /\ AF[LOW] = \hF0

\* C13: bits 3..0 of F are zero in every state reachable from construction.
C13_LowNibbleZero == AF[LOW] % 16 = 0

\* dec b ran first and left F = 0b01000000
C13_Witness ==
    /\ DataLen > 0 /\ ByteAt(0) = \h05
    /\ PC = 1
    /\ ticks = 4
    /\ BC = <<\hFF, \h00>>
    /\ AF[LOW] = \h40

\* The fixed cost of the instruction `op` when the flags are f.
Cost(op, f) ==
    IF op \in {\h00, \h10} \cup Rotates \cup Inc8 \cup Dec8 THEN 4
    ELSE IF op \in Imm8 \cup Inc16 \cup Dec16
                   \cup {\h09, \h19, \h02, \h0A, \h12, \h1A, \h22} THEN 8
    ELSE IF op \in {\h01, \h11, \h21, \h18} THEN 12
    ELSE IF op = \h20 THEN (IF FlagZ(f) = 0 THEN 12 ELSE 8)
    ELSE IF op = \h08 THEN 20
    ELSE 0

\* C14: the cycle counter never decreases, tick(n) adds exactly n, and
\* every instruction that completes (the loop goes on, or stops on 0x10)
\* adds its fixed cost, so the counter is the sum of the costs of the
\* instructions executed.
C14_CycleCounter ==
    [][/\ \A n \in 0..20 : TickLoop(ticks, n) = ticks + n
       /\ ticks' >= ticks
       /\ status' \in {"running", "stopped"}
          => /\ ByteAt(PC) \in DOMAIN opcode_table
             /\ ticks' = ticks + Cost(ByteAt(PC), AF[LOW])]_vars

\* ld (a16), sp ran first and charged 20 cycles
C14_Witness ==
    /\ DataLen = 3 /\ ByteAt(0) = \h08
    /\ PC = 3
    /\ ticks = 20
    /\ status = "running"

\* C15 as stated: the run loop leaves RUNNING only by fetching opcode 0x10.
C15_OnlyStopEnds ==
    [][status = "running" /\ status' # "running"
       => Fetches(\h10) /\ status' = "stopped"]_vars

\* C15: the run loop leaves RUNNING either by fetching opcode 0x10, which
\* takes it to STOPPED, or by an uncaught IndexError / KeyError of the
\* fetch, the decode or an operand read; STOPPED is entered only by
\* fetching 0x10, and once the loop has left RUNNING no register, PC or
\* cycle-counter value changes any more.
C15_Termination ==
    [][/\ status = "running" /\ status' # "running"
          => \/ Fetches(\h10) /\ status' = "stopped"
             \/ ~Fetches(\h10) /\ status' \in {"IndexError", "KeyError"}
       /\ status' = "stopped" => status = "running" /\ Fetches(\h10)
       /\ status # "running" => UNCHANGED vars]_vars

\* two nops ran and the third fetch, past the end, raised IndexError
C15_Witness ==
    /\ status = "IndexError"
    /\ DataLen = 2 /\ ByteAt(0) = \h00 /\ ByteAt(1) = \h00
    /\ PC = 2
    /\ ticks = 8

\* C16: an engine over an empty byte sequence is never constructed, so no
\* run of main_loop over an empty program memory gets as far as its first
\* fetch and fails there.
C16_EmptyRejected == ~(DataLen = 0 /\ PC = 0 /\ ticks = 0 /\ status = "IndexError")

\* C17: each 8-bit inc/dec adds or subtracts 1 modulo 256 on the named
\* half, advances PC by 1, charges 4 cycles, clears N on increment and sets
\* it on decrement, and leaves Z set exactly when the pair holding that half
\* is zero after the operation.
C17_IncDec8 ==
    [][\A op \in Inc8 \cup Dec8 :
         Fetches(op) /\ status' = "running"
         => LET old == IF op < \h10 THEN BC ELSE IF op < \h20 THEN DE ELSE HL
                new == IF op < \h10 THEN BC' ELSE IF op < \h20 THEN DE' ELSE HL'
                half == WrapHalf(op)
            IN  /\ new[half] = (old[half] + WrapStep(op)) % 256
                /\ new[3 - half] = old[3 - half]
                /\ PC' = PC + 1
                /\ ticks' = ticks + 4
                /\ FlagN(AF'[LOW]) = (IF op \in Inc8 THEN 0 ELSE 1)
                /\ FlagZ(AF'[LOW]) = 1 <=> new = <<0, 0>>]_vars

\* C18: the 8-bit inc/dec instructions leave the carry flag C untouched: C
\* after the instruction equals C before it.
C18_CarryKept ==
    [][\A op \in Inc8 \cup Dec8 :
         Fetches(op) /\ status' = "running"
         => FlagC(AF'[LOW]) = FlagC(AF[LOW])]_vars

\* C19: ld (bc),a, ld (de),a, ld a,(bc), ld a,(de), ld (hl+),a and
\* ld (a16),sp change no register or flag other than PC, the cycle counter
\* and, for ld (hl+),a, HL, which becomes (HL + 1) mod 0x10000; the
\* register-indirect forms advance PC by 1 and charge 8 cycles, ld (a16),sp
\* advances PC by 3 and charges 20; and no step of the engine changes
\* program memory.
C19_IndirectLoads ==
    [][/\ game_data' = game_data
       /\ \A op \in {\h02, \h0A, \h12, \h1A, \h22, \h08} :
            Fetches(op)
            => /\ AF' = AF /\ BC' = BC /\ DE' = DE /\ SP' = SP
               /\ HL' = IF op = \h22
                        THEN <<((Combine(HL) + 1) % 65536) \div 256,
                               ((Combine(HL) + 1) % 65536) % 256>>
                        ELSE HL
               /\ status' = "running"
                  => /\ PC' = PC + (IF op = \h08 THEN 3 ELSE 1)
                     /\ ticks' = ticks + (IF op = \h08 THEN 20 ELSE 8)]_vars

\* ld (hl+), a ran with HL = 0xFFFF and left HL = 0x0000
C19_Witness ==
    /\ DataLen = 1 /\ ByteAt(0) = \h22
    /\ PC = 1
    /\ ticks = 8
    /\ HL = <<0, 0>>
    /\ BC = <<\hFF, \hFF>>

\* C20 as stated: main_loop always ends; no iteration leaves the loop
\* running at the PC it started from, where the same instruction would be
\* re-executed in the same state for ever.
C20_AlwaysProgress ==
    [][status = "running" /\ status' = "running" => PC' # PC]_vars

\* C20: every iteration of main_loop started from construction ends the
\* loop (STOPPED via 0x10, or a fatal fetch/decode error, which is what a
\* fetch at or past the end of memory does) or strictly advances PC, except
\* a taken relative jump whose displacement byte is 0x00: that one leaves
\* PC and every register as they were and is re-executed for ever.
C20_Progress ==
    [][/\ status = "running" /\ status' = "running"
          => \/ PC' > PC
             \/ /\ PC' = PC
                /\ ByteAt(PC) \in {\h18, \h20}
                /\ PC + 1 < DataLen /\ ByteAt(PC + 1) = \h00
                /\ ticks' = ticks + 12
                /\ regs' = regs
       /\ status = "running" /\ PC >= DataLen => status' = "IndexError"]_vars

\* jr with displacement 0x00 at PC = 0 has been executed twice
C20_Witness ==
    /\ status = "running"
    /\ DataLen = 2 /\ ByteAt(0) = \h18 /\ ByteAt(1) = \h00
    /\ PC = 0
    /\ ticks = 24

SliceOf(f, a, b) ==
    LET n == Len(f)
        first == IF a < n THEN a ELSE n
        last == IF b < n THEN b ELSE n
    IN  [i \in 1..(last - first) |-> f[first + i]]

C22_GameDataOffset ==
    parser.pos = "parsed"
    => LET f == parser.file_data
           g == parser.game_data
       IN  /\ Len(g) = (IF Len(f) > \h150 THEN Len(f) - \h150 ELSE 0)
           /\ \A i \in 0..(Len(g) - 1) : g[i + 1] = f[\h150 + i + 1]
           /\ status = "running" => game_data.bytes = g
           /\ parser.entry = SliceOf(f, \h100, \h104)
           /\ parser.logo = SliceOf(f, \h104, \h134)
           /\ parser.title = SliceOf(f, \h134, \h144)
           /\ parser.manuf_code = SliceOf(f, \h13F, \h143)
           /\ parser.cgb_flag = SliceOf(f, \h143, \h144)
           /\ parser.new_lic_code = SliceOf(f, \h144, \h146)
           /\ parser.sgb_flag = SliceOf(f, \h146, \h147)
           /\ parser.cart_type = SliceOf(f, \h147, \h148)
           /\ parser.rom_size = SliceOf(f, \h148, \h149)
           /\ parser.ram_size = SliceOf(f, \h149, \h14A)
           /\ parser.dest_code = SliceOf(f, \h14A, \h14B)
           /\ parser.old_lic_code = SliceOf(f, \h14B, \h14C)
           /\ parser.mask_rom_ver = SliceOf(f, \h14C, \h14D)
           /\ parser.header_chksm = SliceOf(f, \h14D, \h14E)
           /\ parser.global_chksm = SliceOf(f, \h14E, \h150)

====
